---- MODULE Spec2Model ----
(***************************************************************************)
(* The RunPod worker of runpod-worker-wan/handler.py: one job handled by   *)
(* handler(job), driving a ComfyUI engine through HTTP and a websocket.    *)
(* The engine and the libraries (requests, websocket) are the environment: *)
(* every call into them is a nondeterministic choice over its outcomes.    *)
(***************************************************************************)
EXTENDS Integers, Sequences, FiniteSets, TLC

\* ------------------------------------------------------------------ bounds
MaxImages == 2      \* longest "images" list of a job input
MaxRetries == 3     \* largest configured CHECK_RETRIES
MaxTimeouts == 2    \* most receive timeouts followed in one wait
MaxDataLen == 4     \* longest image payload of the payload family DataStrings

\* Python's None, and the absence of a dict key read with .get()
None == "None"

\* --------------------------------------------------------- job input values
\* image payloads, as character sequences ("A" is a base64 alphabet character)
Padded == <<"A", "A", "=", "=">>                \* "AA=="
Prefixed == <<"A", ",", "A", "A", "A", "A">>    \* "A,AAAA": a data-URI style prefix
Truncated == <<"A">>                            \* "A": not decodable

ImageEntry(name, image) ==
  [isdict |-> TRUE, has_name |-> TRUE, has_image |-> TRUE, name |-> name, image |-> image]

\* elements of an "images" list: objects with both keys, an object without
\* "image", and a non-object element
GoodEntries == { ImageEntry("a.png", Padded), ImageEntry("b.png", Prefixed),
                 ImageEntry("a.png", Truncated), ImageEntry("b.png", Truncated) }
BadEntries == { [isdict |-> TRUE, has_name |-> TRUE, has_image |-> FALSE,
                 name |-> "a.png", image |-> <<>>],
                [isdict |-> FALSE, has_name |-> FALSE, has_image |-> FALSE,
                 name |-> None, image |-> <<>>] }
Entries == GoodEntries \cup BadEntries

SeqsUpTo(S, n) == UNION { [1..k -> S] : k \in 0..n }

\* the "images" value of an object: absent key, null, a non-list value, a list
ImagesValues(entries, n) ==
  { [tag |-> t, items |-> <<>>] : t \in {"absent", "null", "scalar"} }
    \cup { [tag |-> "list", items |-> s] : s \in SeqsUpTo(entries, n) }

\* JSON documents: null, a non-object value (number, string, array), an object
NullDoc == [tag |-> "null", workflow |-> None,
            images |-> [tag |-> "absent", items |-> <<>>], comfy_org_api_key |-> None]
ScalarDoc == [NullDoc EXCEPT !.tag = "nonobject"]
ObjectDocs(entries, n, keys) ==
  [tag : {"object"}, workflow : {"absent", "null", "wf"},
   images : ImagesValues(entries, n), comfy_org_api_key : keys]

\* job["input"]: a value handed over as is, or a str (which may or may not be
\* the serialisation of a JSON document)
Garbage == [form |-> "str", parses |-> FALSE, doc |-> NullDoc]
JobInputsOver(docs) ==
  [form : {"value", "str"}, parses : {TRUE}, doc : docs] \cup {Garbage}

JobInputs == JobInputsOver({NullDoc, ScalarDoc} \cup ObjectDocs(Entries, MaxImages, {None}))

\* a small family of inputs: null, a str that is not JSON, and two requests
PlainRequest ==
  [tag |-> "object", workflow |-> "wf",
   images |-> [tag |-> "list", items |-> << ImageEntry("a.png", Padded) >>],
   comfy_org_api_key |-> None]
KeyedRequest ==
  [PlainRequest EXCEPT !.images = [tag |-> "absent", items |-> <<>>],
                       !.comfy_org_api_key = "key"]
PlainInputs ==
  { Garbage, [form |-> "value", parses |-> TRUE, doc |-> NullDoc],
    [form |-> "value", parses |-> TRUE, doc |-> PlainRequest],
    [form |-> "str", parses |-> TRUE, doc |-> KeyedRequest] }

\* every image payload of up to MaxDataLen characters over "A" and ","
DataStrings == SeqsUpTo({"A", ","}, MaxDataLen)

\* requests with one image, one for each payload
DataInputs ==
  { [form |-> "value", parses |-> TRUE,
     doc |-> [PlainRequest EXCEPT !.images.items = << ImageEntry("a.png", s) >>]] :
    s \in DataStrings }

\* ------------------------------------------------------------ validate_input
\* json.loads(job_input) for a str input
json_loads(input) ==
  IF input.parses THEN [raised |-> None, value |-> input.doc]
  ELSE [raised |-> "JSONDecodeError", value |-> NullDoc]

\* all(isinstance(image, dict) and "name" in image and "image" in image ...)
all_images_ok(items) ==
  \A i \in 1..Len(items) : items[i].isdict /\ items[i].has_name /\ items[i].has_image

NoRequest == [workflow |-> None, images |-> <<>>, has_images |-> FALSE,
              comfy_org_api_key |-> None]

\* result of validate_input: (validated, error), or the exception it raises
Validated(v) == [raised |-> None, error |-> <<>>, validated |-> v]
Invalid(msg) == [raised |-> None, error |-> <<msg>>, validated |-> NoRequest]
Raises(exc) == [raised |-> exc, error |-> <<>>, validated |-> NoRequest]

\* lines 31-46, on the (possibly decoded) value; .get on a non-dict raises
validate_value(doc) ==
  IF doc.tag # "object" THEN Raises("AttributeError")
  ELSE IF doc.workflow \in {"absent", "null"} THEN Invalid("Missing 'workflow' parameter")
  ELSE IF doc.images.tag = "scalar"
          \/ (doc.images.tag = "list" /\ ~all_images_ok(doc.images.items))
       THEN Invalid("'images' must be a list of objects with 'name' and 'image' keys")
  ELSE Validated([workflow |-> doc.workflow,
                  images |-> doc.images.items,
                  has_images |-> doc.images.tag = "list",
                  comfy_org_api_key |-> doc.comfy_org_api_key])

validate_input(input) ==
  IF input.form = "value" /\ input.doc.tag = "null" THEN Invalid("Please provide input")
  ELSE IF input.form = "str"
       THEN LET parsed == json_loads(input) IN
            IF parsed.raised # None THEN Invalid("Invalid JSON format in input")
            ELSE validate_value(parsed.value)
  ELSE validate_value(input.doc)

\* -------------------------------------------------------------- check_server
\* outcomes of requests.get(COMFY_HTTP/): a status code, or RequestException
ProbeOutcomes == {"200", "204", "503", "RequestException"}

\* line 53: response.status_code == 200
probe_ok(outcome) == outcome = "200"

\* range_has_next with one iteration too many
range_has_next_inclusive(done, retries) == done <= retries

\* line 50: range(CHECK_RETRIES) has another element after `done` iterations
range_has_next(done, retries) == done < retries

\* ------------------------------------------------------------- upload_images
\* position of the first "," of data, 0 when there is none
RECURSIVE first_comma(_, _)
first_comma(data, i) ==
  IF i > Len(data) THEN 0
  ELSE IF data[i] = "," THEN i
  ELSE first_comma(data, i + 1)

\* strip_data_uri with split(",") for split(",", 1)
strip_data_uri_split_all(data) ==
  LET c == first_comma(data, 1)
      d == first_comma(data, c + 1)
  IN IF c = 0 THEN data
     ELSE SubSeq(data, c + 1, IF d = 0 THEN Len(data) ELSE d - 1)

\* data.split(",", 1)[1] when "," in data, else data
strip_data_uri(data) ==
  LET c == first_comma(data, 1) IN
  IF c > 0 THEN SubSeq(data, c + 1, Len(data)) ELSE data

\* base64.b64decode(raw_data) (non-strict): characters outside the alphabet are
\* skipped, a completed pad sequence ends the parse, leftover characters of a
\* quad are an error.  The result is None, or the text of the exception.
RECURSIVE b64scan(_, _, _, _)
b64scan(s, i, quad, pads) ==
  IF i > Len(s)
  THEN IF quad = 0 THEN None
       ELSE IF quad = 1 THEN "Invalid base64-encoded string"
       ELSE "Incorrect padding"
  ELSE IF s[i] = "="
       THEN IF quad >= 2 /\ quad + pads + 1 >= 4 THEN None
            ELSE b64scan(s, i + 1, quad, IF quad >= 2 THEN pads + 1 ELSE pads)
  ELSE IF s[i] = "A" THEN b64scan(s, i + 1, (quad + 1) % 4, 0)
  ELSE b64scan(s, i + 1, quad, pads)

b64decode_error(raw_data) == b64scan(raw_data, 1, 0, 0)

\* outcomes of requests.post(/upload/image) followed by raise_for_status()
UploadOutcomes == {"ok", "HTTPError", "ConnectionError"}

\* upload_failed without raise_for_status(): an error status goes unnoticed
upload_failed_transport_only(outcome) == outcome = "ConnectionError"

\* lines 83-87: both failures are RequestException
upload_failed(outcome) == outcome # "ok"

\* no_images with `if images == []` for `if not images`
no_images_empty_list_only(request) == request.has_images /\ Len(request.images) = 0

\* line 68: `if not images`
no_images(request) == ~request.has_images \/ Len(request.images) = 0

\* ------------------------------------------------------------ queue_workflow
PromptIds == {"p1", "p2"}

\* outcomes of requests.post(/prompt): no response, or a status with a body
\* that is not JSON, a JSON non-object, or an object with/without prompt_id
QueueResponses ==
  { [status |-> s, body |-> None, prompt_id |-> None] : s \in {"RequestException", "400", "500"} }
    \cup { [status |-> "200", body |-> b, prompt_id |-> None] : b \in {"garbage", "nonobject"} }
    \cup [status : {"200"}, body : {"object"}, prompt_id : {None, ""} \cup PromptIds]

\* `queued` before the assignment of line 159
NoResponse == [status |-> None, body |-> None, prompt_id |-> None]

\* response.json() of line 101 returned a value
decoded(resp) == resp.status = "200" /\ resp.body # "garbage"

\* queue_error without the test of lines 164-166
queue_error_unchecked(resp) ==
  IF resp.status = "RequestException" THEN <<"ConnectionError">>
  ELSE IF resp.status = "400" THEN <<"Workflow validation failed: ", "response.text">>
  ELSE IF resp.status # "200" THEN <<"HTTPError ", resp.status>>
  ELSE IF resp.body = "garbage" THEN <<"JSONDecodeError">>
  ELSE IF resp.body = "nonobject" THEN <<"AttributeError">>
  ELSE <<>>

\* lines 97-101 and 164-166: the exception text, or None
queue_error(resp) ==
  IF resp.status = "RequestException" THEN <<"ConnectionError">>
  ELSE IF resp.status = "400" THEN <<"Workflow validation failed: ", "response.text">>
  ELSE IF resp.status # "200" THEN <<"HTTPError ", resp.status>>
  ELSE IF resp.body = "garbage" THEN <<"JSONDecodeError">>
  ELSE IF resp.body = "nonobject" THEN <<"AttributeError">>
  ELSE IF resp.prompt_id \in {None, ""} THEN <<"Missing prompt_id in queue response: ", "queued">>
  ELSE <<>>

\* ------------------------------------------------------- wait_for_completion
\* the "data" member of an event
NoData == [tag |-> "absent", node |-> None, prompt_id |-> None, exception_message |-> None]
DataValues(nodes, msgs) ==
  { [NoData EXCEPT !.tag = t] : t \in {"absent", "null", "scalar"} }
    \cup [tag : {"object"}, node : nodes, prompt_id : {None} \cup PromptIds,
          exception_message : msgs]

Events ==
  [type : {"executing"}, data : DataValues({None, "n1"}, {None})]
    \cup [type : {"execution_error"}, data : DataValues({None}, {None, "", "boom"})]
    \cup [type : {"progress"}, data : DataValues({None}, {None})]
    \cup [type : {None}, data : {NoData}]

\* what ws.recv() does: raises the timeout, raises because the connection is
\* gone, returns bytes, or returns a str (not JSON, a JSON non-object, or an
\* object)
NoFrame == [kind |-> None, json |-> None, type |-> None, data |-> NoData]
Frames ==
  { [NoFrame EXCEPT !.kind = k] : k \in {"timeout", "closed", "binary"} }
    \cup { [NoFrame EXCEPT !.kind = "text", !.json = j] : j \in {"garbage", "nonobject"} }
    \cup { [kind |-> "text", json |-> "object", type |-> e.type, data |-> e.data] : e \in Events }

\* recv_outcome without the handler of WebSocketTimeoutException
recv_outcome_timeout_raises(frame) ==
  IF frame.kind \in {"timeout", "closed"} THEN "raise"
  ELSE IF frame.kind = "binary" THEN "continue"
  ELSE "message"

\* lines 111-116: the timeout and non-str messages restart the loop
recv_outcome(frame) ==
  IF frame.kind = "timeout" THEN "continue"
  ELSE IF frame.kind = "closed" THEN "raise"
  ELSE IF frame.kind = "binary" THEN "continue"
  ELSE "message"

\* data.get("data", {}) followed by payload.get(...): None and non-dicts raise
payload_raises(data) == data.tag \in {"null", "scalar"}

\* is_completion without the comparison of prompt_id
is_completion_any_job(payload, prompt_id) == payload.node = None

\* line 121
is_completion(payload, prompt_id) ==
  payload.node = None /\ payload.prompt_id = prompt_id

\* is_failure without the comparison of prompt_id
is_failure_any_job(payload, prompt_id) == TRUE

\* line 125
is_failure(payload, prompt_id) == payload.prompt_id = prompt_id

\* failure_message without the `or` default
failure_message_raw(payload) == payload.exception_message

\* line 126: payload.get("exception_message") or "ComfyUI execution error"
failure_message(payload) ==
  IF payload.exception_message \in {None, ""} THEN "ComfyUI execution error"
  ELSE payload.exception_message

Continue == [next |-> "continue", exc |-> <<>>]
Return == [next |-> "return", exc |-> <<>>]
Raise(msg) == [next |-> "raise", exc |-> <<msg>>]

\* one iteration of the loop of lines 110-126 on what recv produced
watch_step(frame, prompt_id) ==
  IF recv_outcome(frame) = "continue" THEN Continue
  ELSE IF recv_outcome(frame) = "raise" THEN Raise("WebSocketConnectionClosedException")
  ELSE IF frame.json = "garbage" THEN Raise("JSONDecodeError")
  ELSE IF frame.json = "nonobject" THEN Raise("AttributeError")
  ELSE IF frame.type = "executing"
       THEN IF payload_raises(frame.data) THEN Raise("AttributeError")
            ELSE IF is_completion(frame.data, prompt_id) THEN Return
            ELSE Continue
  ELSE IF frame.type = "execution_error"
       THEN IF payload_raises(frame.data) THEN Raise("AttributeError")
            ELSE IF is_failure(frame.data, prompt_id) THEN Raise(failure_message(frame.data))
            ELSE Continue
  ELSE Continue

\* ------------------------------------------------- fetch_history, collection
Info(filename, type) == [filename |-> filename, type |-> type]
NodeOutput(i, v, g) == [images |-> i, videos |-> v, gifs |-> g]

\* "outputs" maps of a history entry, as the sequence of its values
SampleOutputs ==
  { <<>>,
    << NodeOutput(<< Info("f1", "temp"), Info("f1", "output"), Info(None, "output") >>,
                  << Info("f2", "output") >>, <<>>) >>,
    << NodeOutput(<<>>, << Info("f2", "temp") >>, << Info("f1", "output") >>) >>,
    << NodeOutput(<< Info("f1", "temp") >>, << Info(None, "output") >>, <<>>) >>,
    << NodeOutput(<< Info("f1", "output") >>, <<>>, <<>>),
       NodeOutput(<< Info("f2", "output") >>, <<>>, <<>>) >> }

\* bodies of GET /history/<id>: {<key>: {"outputs": ...}}
Histories(outputs) == [prompt_id : PromptIds, outputs : outputs]

\* outcomes of requests.get(/history/..), raise_for_status() and .json()
HistoryOutcomes == {"ok", "HTTPError", "ConnectionError", "garbage", "nonobject"}

\* history_failed without raise_for_status(): an error status goes unnoticed
history_failed_status_unchecked(outcome) == outcome \notin {"ok", "HTTPError"}

\* lines 132-134: the request, raise_for_status() or response.json() raises
history_failed(outcome) == outcome # "ok"

\* outcomes of requests.get(/view?..) and raise_for_status()
ViewOutcomes == {"ok", "HTTPError", "ConnectionError"}

\* view_failed without raise_for_status(): an error status goes unnoticed
view_failed_status_unchecked(outcome) == outcome = "ConnectionError"

\* lines 139-140: the request or raise_for_status() raises
view_failed(outcome) == outcome # "ok"

\* history.get(prompt_id, {}).get("outputs", {})
outputs_of(history, prompt_id) ==
  IF history.prompt_id = prompt_id THEN history.outputs ELSE <<>>

Tagged(bucket, infos) ==
  [i \in 1..Len(infos) |-> [bucket |-> bucket, info |-> infos[i]]]

\* the order in which lines 176-228 visit the artifact entries
RECURSIVE visit_order(_)
visit_order(outputs) ==
  IF outputs = <<>> THEN <<>>
  ELSE Tagged("images", Head(outputs).images) \o Tagged("videos", Head(outputs).videos)
         \o Tagged("gifs", Head(outputs).gifs) \o visit_order(Tail(outputs))

\* lines 178-182, 197-199, 214-216: entries passed over without a fetch
skipped(entry) ==
  \/ entry.bucket = "images" /\ entry.info.type = "temp"
  \/ entry.info.filename \in {None, ""}

\* response.content of /view, and base64.b64encode(..).decode("utf-8")
content_of(filename) == <<"bytes", filename>>
b64encode(bytes) == <<"base64", bytes>>

artifact(filename, bytes) ==
  [filename |-> filename, type |-> "base64", data |-> b64encode(bytes)]

NoBuckets == [images |-> <<>>, videos |-> <<>>, gifs |-> <<>>]

\* response_of returning the three lists as they are
response_of_all_buckets(b) == [images |-> b.images, videos |-> b.videos, gifs |-> b.gifs]

\* lines 230-239
response_of(b) ==
  IF b.images = <<>> /\ b.videos = <<>> /\ b.gifs = <<>>
  THEN [status |-> <<"success_no_outputs">>, images |-> <<>>, videos |-> <<>>, gifs |-> <<>>]
  ELSE [k \in {x \in {"images", "videos", "gifs"} : b[x] # <<>>} |-> b[k]]

\* line 93: comfy_org_api_key or os.environ.get("COMFY_ORG_API_KEY")
EnvKey == None
api_key(request) ==
  IF request.comfy_org_api_key # None THEN request.comfy_org_api_key ELSE EnvKey

\* ===================================================================== state
VARIABLES
  job_input,       \* job["input"]
  CHECK_RETRIES,   \* configured retry count (line 15)
  engine_outputs,  \* the output maps the engine may have recorded for a job
  pc,              \* position of handler: the stage it is in, or "done"
  validated,       \* the record validate_input returned
  attempt,         \* probes of check_server that have failed
  idx,             \* position of upload_images in the images list
  prompt_id,       \* queued["prompt_id"]
  ws,              \* the websocket: "none", "unconnected", "open", "closed"
  message,         \* what the latest ws.recv() produced
  timeouts,        \* receive timeouts of this wait so far
  seen_foreign,    \* an event naming another job was received in this wait
  todo,            \* artifact entries still to visit
  buckets,         \* the lists images, videos, gifs of handler
  result,          \* the dict handler returned
  returned,        \* "running", "value" (returned result), "fault" (raised)
  requests,        \* requests issued to the engine so far, each with its outcome
  stripped,        \* the raw_data of line 73 of each image processed so far
  queued,          \* the decoded response of POST /prompt (line 159)
  engine,          \* the engine's run of the job: "idle", "running", "executing", "finished"
  inbox            \* events the engine has sent to this session, not yet received

vars == << job_input, CHECK_RETRIES, engine_outputs, pc, validated, attempt,
           idx, prompt_id, ws, message, timeouts, seen_foreign, todo, buckets,
           result, returned, requests, stripped, queued, engine, inbox >>

config == << job_input, CHECK_RETRIES, engine_outputs >>
probing == << attempt >>
watching == << ws, message, timeouts, seen_foreign >>
collecting == << todo, buckets >>
remote == << engine, inbox >>

InitWith(inputs, retries, outputs) ==
  /\ job_input \in inputs
  /\ CHECK_RETRIES \in retries
  /\ engine_outputs = outputs
  /\ pc = "validate"
  /\ validated = NoRequest
  /\ attempt = 0
  /\ idx = 1
  /\ prompt_id = None
  /\ ws = "none"
  /\ message = NoFrame
  /\ timeouts = 0
  /\ seen_foreign = FALSE
  /\ todo = <<>>
  /\ buckets = NoBuckets
  /\ result = <<>>
  /\ returned = "running"
  /\ requests = <<>>
  /\ stripped = <<>>
  /\ queued = NoResponse
  /\ engine = "idle"
  /\ inbox = <<>>

\* handler returns `value`
Finish(value) ==
  /\ pc' = "done"
  /\ result' = value
  /\ returned' = "value"

\* an exception leaves handler
Escape ==
  /\ pc' = "done"
  /\ returned' = "fault"
  /\ UNCHANGED result

Goto(stage) ==
  /\ pc' = stage
  /\ UNCHANGED << result, returned >>

Issue(what, arg, outcome) == requests' = Append(requests, <<what, arg, outcome>>)

\* lines 145-148
Validate ==
  /\ pc = "validate"
  /\ LET r == validate_input(job_input) IN
       IF r.raised # None THEN Escape /\ UNCHANGED validated
       ELSE IF r.error # <<>> THEN Finish([error |-> r.error]) /\ UNCHANGED validated
       ELSE Goto("probe") /\ validated' = r.validated
  /\ UNCHANGED << config, stripped, queued, remote, probing, idx, prompt_id, watching, collecting, requests >>

\* lines 50-57: one attempt of check_server
Probe ==
  /\ pc = "probe"
  /\ range_has_next(attempt, CHECK_RETRIES)
  /\ \E outcome \in ProbeOutcomes :
       /\ Issue("GET /", "", outcome)
       /\ IF probe_ok(outcome)
          THEN Goto("upload") /\ UNCHANGED attempt
          ELSE Goto("probe") /\ attempt' = attempt + 1
  /\ UNCHANGED << config, stripped, queued, remote, validated, idx, prompt_id, watching, collecting >>

\* lines 58, 150-151: the retries are used up
ProbeExhausted ==
  /\ pc = "probe"
  /\ ~range_has_next(attempt, CHECK_RETRIES)
  /\ Finish([error |-> <<"ComfyUI server (", "COMFY_HOST", ") not reachable.">>])
  /\ UNCHANGED << config, stripped, queued, remote, validated, probing, idx, prompt_id, watching, collecting, requests >>

\* lines 71-87, 154-155: one image of upload_images (`for image in images`
\* on None raises TypeError, outside the try of handler)
UploadImage ==
  /\ pc = "upload"
  /\ ~no_images(validated)
  /\ validated.has_images => idx <= Len(validated.images)
  /\ IF ~validated.has_images
     THEN Escape /\ UNCHANGED << idx, requests, stripped >>
     ELSE LET image == validated.images[idx]
              raw_data == strip_data_uri(image.image)
              exc == b64decode_error(raw_data)
          IN /\ stripped' = Append(stripped, raw_data)
             /\ IF exc # None
                THEN /\ Finish([error |-> <<"Failed to decode base64 for ", image.name, exc>>])
                     /\ UNCHANGED << idx, requests >>
                ELSE \E outcome \in UploadOutcomes :
                       /\ Issue("POST /upload/image", image.name, outcome)
                       /\ IF upload_failed(outcome)
                          THEN Finish([error |-> <<"Failed to upload ", image.name, outcome>>])
                               /\ UNCHANGED idx
                          ELSE Goto("upload") /\ idx' = idx + 1
  /\ UNCHANGED << config, validated, probing, prompt_id, watching, collecting, queued, remote >>

\* lines 68-69, 88, 153-154: upload_images returns None
UploadDone ==
  /\ pc = "upload"
  /\ no_images(validated) \/ (validated.has_images /\ idx > Len(validated.images))
  /\ Goto("submit")
  /\ UNCHANGED << config, stripped, queued, remote, validated, probing, idx, prompt_id, watching, collecting, requests >>

\* lines 157-166; the engine starts on the job it has accepted
Submit ==
  /\ pc = "submit"
  /\ \E resp \in QueueResponses :
       /\ Issue("POST /prompt", api_key(validated), resp.status)
       /\ queued' = IF decoded(resp) THEN resp ELSE queued
       /\ IF queue_error(resp) # <<>>
          THEN Finish([error |-> queue_error(resp)]) /\ UNCHANGED << prompt_id, engine >>
          ELSE Goto("connect") /\ prompt_id' = resp.prompt_id /\ engine' = "running"
  /\ UNCHANGED << config, validated, probing, idx, watching, collecting, stripped, inbox >>

\* lines 105-108: the handshake succeeds, or ws.connect raises
Connect ==
  /\ pc = "connect"
  /\ \E outcome \in {"connected", "WebSocketException"} :
       /\ Issue("WS /ws", "", outcome)
       /\ IF outcome = "connected"
          THEN Goto("waiting") /\ ws' = "open"
          ELSE Finish([error |-> <<outcome>>]) /\ ws' = "unconnected"
  /\ UNCHANGED << config, stripped, queued, remote, validated, probing, idx, prompt_id, message, timeouts,
                  seen_foreign, collecting >>

\* an event whose data names a job other than the watched one
foreign(frame, watched) ==
  /\ frame.kind = "text"
  /\ frame.json = "object"
  /\ frame.data.tag = "object"
  /\ frame.data.prompt_id # watched

\* lines 110-128: one iteration of the loop on what ws.recv() produced
\* (timeouts are counted modulo MaxTimeouts + 1)
Receive(frame) ==
  /\ pc = "waiting"
  /\ message' = frame
  /\ timeouts' = IF frame.kind = "timeout"
                 THEN (timeouts + 1) % (MaxTimeouts + 1) ELSE timeouts
  /\ seen_foreign' = (seen_foreign \/ foreign(frame, prompt_id))
  /\ LET step == watch_step(frame, prompt_id) IN
       IF step.next = "continue" THEN Goto("waiting") /\ UNCHANGED ws
       ELSE IF step.next = "return" THEN Goto("history") /\ ws' = "closed"
       ELSE Finish([error |-> step.exc]) /\ ws' = "closed"
  /\ UNCHANGED << config, stripped, queued, engine, validated, probing, idx, prompt_id,
                  collecting, requests >>

\* ws.recv() with the stream free to produce anything
Recv ==
  \E frame \in Frames :
    /\ frame.kind = "timeout" => timeouts < MaxTimeouts
    /\ Receive(frame)
    /\ UNCHANGED inbox

\* lines 131-134, 169-175
FetchHistory ==
  /\ pc = "history"
  /\ \E outcome \in HistoryOutcomes :
       /\ Issue("GET /history", prompt_id, outcome)
       /\ IF ~history_failed(outcome)
          THEN \E history \in Histories(engine_outputs) :
                 /\ Goto("collect")
                 /\ todo' = visit_order(outputs_of(history, prompt_id))
                 /\ buckets' = NoBuckets
          ELSE /\ Finish([error |-> <<IF outcome = "nonobject" THEN "AttributeError"
                                      ELSE outcome>>])
               /\ UNCHANGED collecting
  /\ UNCHANGED << config, stripped, queued, remote, validated, probing, idx, prompt_id, watching >>

\* lines 176-228: one artifact entry
CollectEntry ==
  /\ pc = "collect"
  /\ todo # <<>>
  /\ LET entry == Head(todo) IN
       IF skipped(entry)
       THEN Goto("collect") /\ todo' = Tail(todo) /\ UNCHANGED << buckets, requests >>
       ELSE \E outcome \in ViewOutcomes :
              /\ Issue("GET /view", <<entry.info.filename, entry.info.type>>, outcome)
              /\ IF ~view_failed(outcome)
                 THEN /\ Goto("collect")
                      /\ todo' = Tail(todo)
                      /\ buckets' =
                           [buckets EXCEPT ![entry.bucket] =
                              Append(@, artifact(entry.info.filename,
                                                 content_of(entry.info.filename)))]
                 ELSE Finish([error |-> <<outcome>>]) /\ UNCHANGED collecting
  /\ UNCHANGED << config, stripped, queued, remote, validated, probing, idx, prompt_id, watching >>

\* lines 230-239
Respond ==
  /\ pc = "collect"
  /\ todo = <<>>
  /\ Finish(response_of(buckets))
  /\ UNCHANGED << config, stripped, queued, remote, validated, probing, idx, prompt_id, watching, collecting, requests >>

Next ==
  \/ Validate
  \/ Probe
  \/ ProbeExhausted
  \/ UploadImage
  \/ UploadDone
  \/ Submit
  \/ Connect
  \/ Recv
  \/ FetchHistory
  \/ CollectEntry
  \/ Respond

\* every job input, one retry budget
Init == InitWith(JobInputs, {2}, SampleOutputs)
Spec == Init /\ [][Next]_vars

\* every retry budget, on a plain request
InitProbe == InitWith(PlainInputs, 0..MaxRetries, SampleOutputs)
SpecProbe == InitProbe /\ [][Next]_vars

\* every payload of one image, one retry budget
InitStrip == InitWith(DataInputs, {1}, SampleOutputs)
SpecStrip == InitStrip /\ [][Next]_vars

\* ------------------------------------------------ the engine's run of the job
\* The engine runs the job it accepted (line 97) on its own, while handler
\* goes on to wait_for_completion; it sends the job's events to the websocket
\* of the job's client_id (line 105).
EngineEvent(type, node, msg) ==
  [kind |-> "text", json |-> "object", type |-> type,
   data |-> [tag |-> "object", node |-> node, prompt_id |-> prompt_id,
             exception_message |-> msg]]

ProgressEvent == EngineEvent("executing", "n1", None)
TerminalEvents == { EngineEvent("executing", None, None),
                    EngineEvent("execution_error", None, "boom") }

\* an event reaches the session's socket when that is connected; an event for
\* a session that has not connected yet (handler is between lines 159 and
\* 107) is held back for it or dropped, as the engine chooses; an event for a
\* session that is gone is dropped
Deliver(frame) ==
  IF ws = "open" THEN inbox' = Append(inbox, frame)
  ELSE IF pc = "connect" THEN inbox' \in {inbox, Append(inbox, frame)}
  ELSE inbox' = inbox

\* the engine starts on a node of the workflow
EngineProgress ==
  /\ engine = "running"
  /\ engine' = "executing"
  /\ Deliver(ProgressEvent)
  /\ UNCHANGED << config, pc, validated, probing, idx, prompt_id, watching, collecting,
                  result, returned, requests, stripped, queued >>

\* the engine ends the job and emits its terminal event
EngineEmit ==
  /\ engine \in {"running", "executing"}
  /\ engine' = "finished"
  /\ \E frame \in TerminalEvents : Deliver(frame)
  /\ UNCHANGED << config, pc, validated, probing, idx, prompt_id, watching, collecting,
                  result, returned, requests, stripped, queued >>

\* line 112: ws.recv() returns the next event the engine sent
RecvDelivered ==
  /\ inbox # <<>>
  /\ Receive(Head(inbox))
  /\ inbox' = Tail(inbox)

\* lines 112-114: nothing was sent within WS_RECV_TIMEOUT
RecvIdle ==
  /\ inbox = <<>>
  /\ Receive([NoFrame EXCEPT !.kind = "timeout"])
  /\ UNCHANGED inbox

HandlerNext ==
  \/ Validate
  \/ Probe
  \/ ProbeExhausted
  \/ UploadImage
  \/ UploadDone
  \/ Submit
  \/ Connect
  \/ RecvDelivered
  \/ RecvIdle
  \/ FetchHistory
  \/ CollectEntry
  \/ Respond

EngineNext == EngineProgress \/ EngineEmit

NextRace == HandlerNext \/ EngineNext

\* handler and a well-behaved engine side by side: handler's thread keeps
\* running, and the engine finishes the job it started
InitRace == InitWith(PlainInputs, {1}, SampleOutputs)
SpecRace == InitRace /\ [][NextRace]_vars /\ WF_vars(HandlerNext) /\ WF_vars(EngineNext)

\* ==================================================================== claims
Requests(what) == SelectSeq(requests, LAMBDA r : r[1] = what)

\* the three shapes of a job result (section 6 of the specification)
IsError(value) == DOMAIN value = {"error"}
IsNoOutputs(value) ==
  /\ DOMAIN value = {"status", "images", "videos", "gifs"}
  /\ value.status = <<"success_no_outputs">>
IsArtifacts(value) ==
  /\ DOMAIN value # {}
  /\ DOMAIN value \subseteq {"images", "videos", "gifs"}
  /\ \A k \in DOMAIN value : value[k] # <<>>

\* C1: whenever handler hands control back to the host it returns a well-formed
\* result ({error}, a non-empty artifact map, or success_no_outputs); no
\* exception leaves handler, whatever the job input and the engine do.
C1_AlwaysWellFormedResult ==
  pc = "done" =>
    /\ returned = "value"
    /\ IsError(result) \/ IsNoOutputs(result) \/ IsArtifacts(result)

\* the frame is the completion event of the watched job
MatchingCompletion(frame, watched) ==
  /\ frame.kind = "text"
  /\ frame.json = "object"
  /\ frame.type = "executing"
  /\ frame.data.tag = "object"
  /\ frame.data.node = None
  /\ frame.data.prompt_id = watched

\* the frame is the execution_error event of the watched job
MatchingError(frame, watched) ==
  /\ frame.kind = "text"
  /\ frame.json = "object"
  /\ frame.type = "execution_error"
  /\ frame.data.tag = "object"
  /\ frame.data.prompt_id = watched

\* C2: wait_for_completion returns normally (handler goes on to fetch the
\* history) only in the step that receives an "executing" event with no node
\* and the watched job's prompt_id.
C2_CompletedOnlyOnMatchingExecuting ==
  [][(pc # "history" /\ pc' = "history") =>
       (pc = "waiting" /\ MatchingCompletion(message', prompt_id))]_vars

C2_Witness ==
  /\ pc = "history"
  /\ MatchingCompletion(message, prompt_id)
  /\ ws = "closed"

\* the watch stage ends with a failure: handler returns from inside the wait
WaitFails == pc = "waiting" /\ pc' = "done"

\* C3: after the handshake, the wait ends with a failure only in the step that
\* receives an "execution_error" event with the watched job's prompt_id; no
\* other frame or stream condition ends it with a failure.
C3_FailedOnlyOnMatchingError ==
  [][WaitFails => MatchingError(message', prompt_id)]_vars

\* the watcher is where it was: still waiting on the open connection, nothing
\* returned, nothing requested
StillWaiting ==
  /\ pc' = "waiting"
  /\ ws' = "open"
  /\ UNCHANGED << result, returned, requests, prompt_id, validated, collecting >>

\* C4: an event whose data names another job (or no job), whatever its type,
\* leaves the watcher waiting; a later event of the watched job still ends
\* the wait.
C4_ForeignEventsIgnored ==
  [][(pc = "waiting" /\ foreign(message', prompt_id)) => StillWaiting]_vars

C4_Witness ==
  /\ seen_foreign
  /\ pc = "history"
  /\ MatchingCompletion(message, prompt_id)

\* a text frame that is a JSON event of shape {type, data}
WellShaped(frame) ==
  /\ frame.kind = "text"
  /\ frame.json = "object"
  /\ frame.type # None
  /\ frame.data.tag = "object"

Ignorable(frame) ==
  \/ frame.kind = "binary"
  \/ frame.kind = "text" /\ ~WellShaped(frame)

\* C5: every non-text frame and every malformed text frame received while
\* waiting is ignored: the watcher stays waiting and goes on receiving.
C5_MalformedFramesIgnored ==
  [][(pc = "waiting" /\ Ignorable(message')) => StillWaiting]_vars

\* C6: a receive timeout never ends the wait: after it the watcher is still
\* waiting on the open connection and nothing has been returned; a matching
\* terminal event delivered after any number of timeouts is still acted upon.
C6_TimeoutKeepsWaiting ==
  [][(pc = "waiting" /\ timeouts' # timeouts) =>
       (message'.kind = "timeout" /\ StillWaiting)]_vars

C6_Witness ==
  /\ timeouts = MaxTimeouts
  /\ message.kind # "timeout"
  /\ pc = "history"

\* the watch stage was entered and has ended
WatchEnded == Len(Requests("WS /ws")) > 0 /\ pc \notin {"connect", "waiting"}

\* C7: on every exit path of the watch stage (completion, execution error,
\* connect-phase failure, any other exception) the connection has been closed.
C7_ClosedOnEveryExit == WatchEnded => ws = "closed"

Probes == Requests("GET /")
ProbeSucceeded == \E i \in DOMAIN Probes : Probes[i][3] = "200"

\* C8: check_server returns True in the very step whose probe answers with
\* the success status (200) and issues no probe after it; it returns False
\* only when exactly CHECK_RETRIES probes were issued and all of them failed;
\* it never issues more than CHECK_RETRIES probes.
C8_ProberFirstSuccessOrExhaustion ==
  [][ /\ Len(Probes') <= CHECK_RETRIES
      /\ \A i \in DOMAIN Probes' : Probes'[i][3] = "200" => i = Len(Probes')
      /\ (pc = "probe" /\ Len(Probes') > Len(Probes) /\ Probes'[Len(Probes')][3] = "200")
           => pc' = "upload"
      /\ (pc = "probe" /\ pc' = "upload")
           => (Len(Probes') = Len(Probes) + 1 /\ Probes'[Len(Probes')][3] = "200")
      /\ (pc = "probe" /\ pc' = "done")
           => /\ Len(Probes') = CHECK_RETRIES
              /\ Probes' = Probes
              /\ ~ProbeSucceeded'
              /\ IsError(result')
      /\ pc' \notin {"validate", "probe", "done"} => ProbeSucceeded'
    ]_vars

\* success at the last permitted attempt, after failures of both kinds
C8_Witness ==
  /\ CHECK_RETRIES = MaxRetries
  /\ Len(Probes) = MaxRetries
  /\ pc = "upload"
  /\ Probes[1][3] = "RequestException"
  /\ Probes[2][3] \in {"204", "503"}

Uploads == Requests("POST /upload/image")
Submitted == Len(Requests("POST /prompt")) > 0
Decodable(image) == b64decode_error(strip_data_uri(image.image)) = None
UploadStageLeft == ProbeSucceeded /\ pc # "upload"

\* C9: images are decoded and uploaded one by one in request order; POST
\* /prompt is issued only after every image was decoded and uploaded with
\* success; the first image that fails to decode or to upload ends the job
\* with an error naming it, with no later upload and no submission.
C9_SubmitOnlyAfterAllUploads ==
  LET images == validated.images
      failed == { i \in DOMAIN Uploads : Uploads[i][3] # "ok" }
      n == Len(Uploads)
  IN /\ n <= Len(images)
     /\ \A i \in DOMAIN Uploads : Uploads[i][2] = images[i].name /\ Decodable(images[i])
     /\ failed \subseteq {n}
     /\ Submitted => (n = Len(images) /\ failed = {})
     /\ failed # {} =>
          /\ pc = "done"
          /\ ~Submitted
          /\ IsError(result)
          /\ result.error = <<"Failed to upload ", images[n].name, Uploads[n][3]>>
     /\ (UploadStageLeft /\ failed = {} /\ n < Len(images)) =>
          /\ pc = "done"
          /\ ~Submitted
          /\ ~Decodable(images[n + 1])
          /\ IsError(result)
          /\ SubSeq(result.error, 1, 2)
               = <<"Failed to decode base64 for ", images[n + 1].name>>

\* the second image fails to upload after the first went through
C9_Witness ==
  /\ Len(validated.images) = 2
  /\ Len(Uploads) = 2
  /\ Uploads[1][3] = "ok"
  /\ Uploads[2][3] = "HTTPError"
  /\ validated.images[1].name # validated.images[2].name
  /\ pc = "done"

\* position of a request in the order probe, upload, submit, watch, collect
Rank(request) ==
  CASE request[1] = "GET /" -> 1
    [] request[1] = "POST /upload/image" -> 2
    [] request[1] = "POST /prompt" -> 3
    [] request[1] = "WS /ws" -> 4
    [] request[1] = "GET /history" -> 5
    [] request[1] = "GET /view" -> 6

Succeeded(request) == request[3] \in {"ok", "200", "connected"}

\* C10: the stages run in the order validate, probe, upload, submit, watch,
\* collect: the requests of a job follow that order, submit, connect and
\* history fetch happen at most once, a failed request after probing is the
\* last request of the job, and a job that ends always ends with a result
\* value, which is a structured error whenever a stage failed.
C10_StagesInOrderOrError ==
  /\ \A i, j \in DOMAIN requests : i < j => Rank(requests[i]) <= Rank(requests[j])
  /\ \A what \in {"POST /prompt", "WS /ws", "GET /history"} : Len(Requests(what)) <= 1
  /\ \A i \in DOMAIN requests :
       (Rank(requests[i]) > 1 /\ ~Succeeded(requests[i])) => i = Len(requests)
  /\ pc = "done" =>
       /\ returned = "value"
       /\ IsError(result) \/ IsNoOutputs(result) \/ IsArtifacts(result)
       /\ (\E i \in DOMAIN requests : Rank(requests[i]) > 1 /\ ~Succeeded(requests[i]))
            => IsError(result)

OnceOnly == {"POST /prompt", "WS /ws", "GET /history"}
Views == Requests("GET /view")
FailedAfterProbe == { i \in DOMAIN requests : Rank(requests[i]) > 1 /\ ~Succeeded(requests[i]) }

\* C11: apart from the probe loop nothing is retried: POST /prompt, the
\* websocket connect and GET /history are each issued at most once per job, the
\* i-th upload is the upload of the i-th image, every GET /view is the fetch of
\* the entry at the head of the list, which it leaves for good, and the first
\* request that fails is the job's last request and ends it with an error.
C11_NoRetryBeyondProbe ==
  [][ /\ \A what \in OnceOnly : Len(Requests(what)') <= 1
      /\ Len(Uploads') <= Len(validated'.images)
      /\ \A i \in DOMAIN Uploads' : Uploads'[i][2] = validated'.images[i].name
      /\ Len(Views') > Len(Views) =>
           /\ todo # <<>>
           /\ Views'[Len(Views')][2] = <<Head(todo).info.filename, Head(todo).info.type>>
           /\ todo' = Tail(todo) \/ pc' = "done"
      /\ \A i \in FailedAfterProbe' :
           /\ i = Len(requests')
           /\ pc' = "done"
           /\ IsError(result')
      /\ (pc = "submit" /\ pc' # "connect") => (pc' = "done" /\ IsError(result'))
    ]_vars

\* every stage ran once and the second artifact fetch failed after the first
\* went through
C11_Witness ==
  /\ pc = "done"
  /\ \A what \in OnceOnly : Len(Requests(what)) = 1
  /\ Len(Views) = 2
  /\ Views[1][3] = "ok"
  /\ Views[2][3] = "HTTPError"
  /\ IsError(result)

\* C12: no GET /view is issued for an artifact the engine marked "temp", and
\* every artifact retained in a bucket was fetched as a non-transient one.
C12_NoTransientArtifact ==
  /\ \A i \in DOMAIN Views : Views[i][2][2] # "temp"
  /\ \A k \in DOMAIN buckets : \A i \in DOMAIN buckets[k] :
       \E j \in DOMAIN Views :
         Views[j][2] = <<buckets[k][i].filename, "output">> /\ Views[j][3] = "ok"

BucketNames == {"images", "videos", "gifs"}
Retained == { k \in BucketNames : buckets[k] # <<>> }

\* the job completed and every fetch of the collection went through
CollectedAll ==
  /\ pc = "done"
  /\ Len(Requests("GET /history")) = 1
  /\ \A i \in DOMAIN requests : Rank(requests[i]) >= 5 => Succeeded(requests[i])

\* C13: a completed job whose fetches all succeeded returns
\* success_no_outputs with three empty lists exactly when nothing was
\* retained; otherwise it returns exactly the non-empty buckets with their
\* contents, never an empty bucket and never an error.
C13_NoOutputsIffNothingRetained ==
  CollectedAll =>
    /\ returned = "value"
    /\ ~IsError(result)
    /\ Len(buckets.images) + Len(buckets.videos) + Len(buckets.gifs) = Len(Views)
    /\ IsNoOutputs(result) <=> Retained = {}
    /\ IsNoOutputs(result) => \A k \in BucketNames : result[k] = <<>>
    /\ Retained # {} =>
         /\ DOMAIN result = Retained
         /\ \A k \in Retained : result[k] = buckets[k] /\ result[k] # <<>>

\* two buckets retained, the third left out of the result
C13_Witness ==
  /\ CollectedAll
  /\ DOMAIN result = {"images", "videos"}
  /\ Len(result.images) = 1
  /\ Len(Views) = 2

\* a request of the collect stage (history or artifact fetch) failed
CollectFailed ==
  \E i \in DOMAIN requests : Rank(requests[i]) >= 5 /\ ~Succeeded(requests[i])

\* C14: when the history fetch or any artifact fetch fails the job is over and
\* its result is the single error, with none of the artifacts fetched before.
C14_FetchFailureIsSingleError ==
  CollectFailed =>
    /\ pc = "done"
    /\ returned = "value"
    /\ DOMAIN result = {"error"}
    /\ Len(result.error) = 1
    /\ ~Succeeded(requests[Len(requests)])

\* the failing fetch came after an artifact had been retained
C14_Witness ==
  /\ CollectFailed
  /\ buckets.images # <<>>
  /\ Views[Len(Views)][3] = "ConnectionError"
  /\ pc = "done"

\* C15: the step that receives an execution_error event of the watched job
\* ends the job: the connection is closed, the result is {error: m} with m the
\* event's exception_message, or "ComfyUI execution error" when that is absent
\* or empty, and neither the history nor an artifact is fetched.
C15_ExecutionErrorEndsJob ==
  [][(pc = "waiting" /\ MatchingError(message', prompt_id)) =>
       LET m == message'.data.exception_message IN
         /\ pc' = "done"
         /\ returned' = "value"
         /\ ws' = "closed"
         /\ result' = [error |-> <<IF m \in {None, ""} THEN "ComfyUI execution error" ELSE m>>]
         /\ requests' = requests
         /\ Requests("GET /history") = <<>>
         /\ Views = <<>>
    ]_vars

C15_Witness ==
  /\ pc = "done"
  /\ MatchingError(message, prompt_id)
  /\ message.data.exception_message = ""
  /\ result = [error |-> <<"ComfyUI execution error">>]

\* the outcome section 4.1 of the specification prescribes for job_input
ExpectedKind ==
  LET doc == job_input.doc IN
  IF job_input.form = "str" /\ ~job_input.parses THEN "InvalidFormat"
  ELSE IF doc.tag = "null" THEN "MissingInput"
  ELSE IF doc.tag # "object" \/ doc.workflow \in {"absent", "null"} THEN "MissingField"
  ELSE IF doc.images.tag = "scalar"
          \/ \E i \in DOMAIN doc.images.items :
               ~(doc.images.items[i].isdict /\ doc.images.items[i].has_name
                   /\ doc.images.items[i].has_image)
       THEN "InvalidImages"
  ELSE "Request"

KindMessage(kind) ==
  CASE kind = "InvalidFormat" -> "Invalid JSON format in input"
    [] kind = "MissingInput" -> "Please provide input"
    [] kind = "MissingField" -> "Missing 'workflow' parameter"
    [] kind = "InvalidImages" -> "'images' must be a list of objects with 'name' and 'image' keys"

\* C16: for every payload, given as a value or as a string, validation ends in
\* exactly the prescribed outcome (InvalidFormat, MissingInput, MissingField,
\* InvalidImages, or the normalized request), never in a fault, and issues no
\* request.
C16_ValidatorTotal ==
  pc # "validate" =>
    IF ExpectedKind = "Request"
    THEN /\ validated.workflow = job_input.doc.workflow
         /\ validated.images = job_input.doc.images.items
         /\ validated.has_images = (job_input.doc.images.tag = "list")
         /\ validated.comfy_org_api_key = job_input.doc.comfy_org_api_key
    ELSE /\ pc = "done"
         /\ returned = "value"
         /\ result = [error |-> <<KindMessage(ExpectedKind)>>]
         /\ validated = NoRequest
         /\ requests = <<>>

\* the request carries no images: the key is absent, null, or an empty list
NoImagesRequested ==
  \/ job_input.doc.images.tag \in {"absent", "null"}
  \/ job_input.doc.images.tag = "list" /\ job_input.doc.images.items = <<>>

\* C17: for a valid request without images the upload stage is a single step
\* to the submit stage that issues no request, returns no error and changes
\* nothing else.
C17_NoImagesUploaderNoOp ==
  [][(pc = "upload" /\ NoImagesRequested) =>
       /\ pc' = "submit"
       /\ requests' = requests
       /\ UNCHANGED << config, validated, probing, idx, prompt_id, watching, collecting,
                       result, returned, stripped, queued, remote >>
    ]_vars

\* a request whose "images" is null went on to the submission with no upload
C17_Witness ==
  /\ job_input.doc.images.tag = "null"
  /\ Submitted
  /\ Uploads = <<>>
  /\ stripped = <<>>

Commas(s) == { j \in DOMAIN s : s[j] = "," }

\* C18: the payload strip_data_uri returns for an image is the image's string
\* itself when that has no comma (and stripping it again returns it again),
\* and otherwise the characters after its first comma, later commas included.
C18_StripDataUri ==
  \A i \in DOMAIN stripped :
    LET s == validated.images[i].image
        out == stripped[i]
    IN IF Commas(s) = {}
       THEN out = s /\ strip_data_uri(out) = out
       ELSE LET c == CHOOSE j \in Commas(s) : \A k \in Commas(s) : j <= k IN
            /\ Len(out) = Len(s) - c
            /\ \A j \in DOMAIN out : out[j] = s[c + j]

\* a payload with a prefix and a later comma, which is kept
C18_Witness ==
  /\ Len(stripped) = 1
  /\ first_comma(validated.images[1].image, 1) > 1
  /\ Commas(stripped[1]) # {}
  /\ Len(stripped[1]) > 1

\* the engine accepted the submission and answered with an object that has no
\* (or an empty) prompt_id
NoIdentifier ==
  /\ queued.status = "200"
  /\ queued.body = "object"
  /\ queued.prompt_id \in {None, ""}

\* C19: when the accepted submission's response carries no job identifier the
\* job is over with the error "Missing prompt_id in queue response", POST
\* /prompt was issued once and is the job's last request, no websocket was
\* opened and neither the history nor an artifact was fetched.
C19_MissingJobIdEndsJob ==
  NoIdentifier =>
    /\ pc = "done"
    /\ returned = "value"
    /\ IsError(result)
    /\ result.error[1] = "Missing prompt_id in queue response: "
    /\ Len(Requests("POST /prompt")) = 1
    /\ requests[Len(requests)][1] = "POST /prompt"
    /\ ws = "none"
    /\ Requests("WS /ws") = <<>>
    /\ Requests("GET /history") = <<>>
    /\ Views = <<>>

C19_Witness ==
  /\ NoIdentifier
  /\ queued.prompt_id = None
  /\ pc = "done"
  /\ Len(Uploads) > 0

\* C20: once the engine has emitted the terminal event of the submitted job,
\* handler eventually returns a result, whatever the interleaving of the
\* engine's run with handler's steps.
C20_TerminalEventLeadsToResult == (engine = "finished") ~> (pc = "done")

====
